---- MODULE Spec2Model ----
(***************************************************************************)
(* Model of the Elysium PDF service (vtm-scribe-service).                  *)
(*                                                                         *)
(*   app/services/pdf_service.py  PdfService: the three dot renderers and  *)
(*                                generate_character_stream                *)
(*   app/main.py                  generate_pdf, the HTTP handler           *)
(*   app/models.py                CharacterRequest / ReferenceData         *)
(*                                                                         *)
(* Python values are tagged records [t, v] so that isinstance, int() and   *)
(* str() can be modelled by what they do.  A Python str that the code      *)
(* transforms (title(), replace()) is a sequence of one-character strings; *)
(* text that is only written out is a TLA+ string.  PDF field names are    *)
(* TLA+ strings built exactly like the f-strings of the source.            *)
(***************************************************************************)
EXTENDS Integers, Sequences, FiniteSets, TLC

VARIABLES
    pc,                   \* position of the request being served
    caller,               \* "none" | "http" (generate_pdf) | "direct" (library call)
    template_exists,      \* os.path.exists(TEMPLATE_PATH): the deployed asset
    request_body,         \* the JSON body of the request (http only)
    character,            \* the validated CharacterRequest (http only)
    char_data,            \* the dict handed to generate_character_stream
    main_disciplines, overflow_disciplines,
    main_backgrounds, overflow_backgrounds,
    other_lines,          \* the list of lines of the 'Other' section
    form_fields,          \* the FieldMap: field name -> value
    overwritten,          \* field names an update found already present
    exc,                  \* the exception in flight ("None" when there is none)
    output_stream,        \* what writer.write() put in the BytesIO
    response,             \* what generate_pdf answered
    call                  \* frame of a direct call of one renderer

vars == <<pc, caller, template_exists, request_body, character, char_data,
          main_disciplines, overflow_disciplines,
          main_backgrounds, overflow_backgrounds, other_lines,
          form_fields, overwritten, exc, output_stream, response, call>>

-----------------------------------------------------------------------------
(* Bounds of the explored inputs.                                          *)

MaxRating == 12       \* ratings explored are -MaxNegative .. MaxRating
MaxNegative == 2
MaxRanked == 7        \* longest trait mapping explored with every rating pattern
MaxMany == 11         \* longest trait mapping explored with one rating pattern

-----------------------------------------------------------------------------
(* Python values.                                                          *)

PyNone == [t |-> "None", v |-> 0]
PyInt(n) == [t |-> "int", v |-> n]
PyStr(s) == [t |-> "str", v |-> s]
PyDict(d) == [t |-> "dict", v |-> d]
NameObject(s) == [t |-> "NameObject", v |-> s]
Text(s) == [t |-> "text", v |-> s]

\* dict.get(key, default) on a dict modelled as a function.
Get(d, key, default) == IF key \in DOMAIN d THEN d[key] ELSE default

EmptyDict == [k \in {} |-> PyNone]

LowerCase == <<"a","b","c","d","e","f","g","h","i","j","k","l","m",
               "n","o","p","q","r","s","t","u","v","w","x","y","z">>
UpperCase == <<"A","B","C","D","E","F","G","H","I","J","K","L","M",
               "N","O","P","Q","R","S","T","U","V","W","X","Y","Z">>
Digit == <<"0","1","2","3","4","5","6","7","8","9">>

Range(s) == {s[i] : i \in DOMAIN s}
IndexIn(c, s) == CHOOSE i \in DOMAIN s : s[i] = c
LowerSet == Range(LowerCase)
UpperSet == Range(UpperCase)
DigitSet == Range(Digit)
UpperOf == [c \in LowerSet |-> UpperCase[IndexIn(c, LowerCase)]]
LowerOf == [c \in UpperSet |-> LowerCase[IndexIn(c, UpperCase)]]
IsCased(c) == c \in LowerSet \/ c \in UpperSet
ToUpper(c) == IF c \in LowerSet THEN UpperOf[c] ELSE c
ToLower(c) == IF c \in UpperSet THEN LowerOf[c] ELSE c

\* The text of a str as one TLA+ string.
RECURSIVE Join(_)
Join(s) == IF s = <<>> THEN "" ELSE Head(s) \o Join(Tail(s))

\* str.title(): a cased character is upper-cased when the character before it
\* is not cased, and lower-cased otherwise.
RECURSIVE TitleFrom(_, _)
TitleFrom(s, prevCased) ==
    IF s = <<>> THEN <<>>
    ELSE LET c == Head(s) IN
         IF IsCased(c)
         THEN <<(IF prevCased THEN ToLower(c) ELSE ToUpper(c))>> \o TitleFrom(Tail(s), TRUE)
         ELSE <<c>> \o TitleFrom(Tail(s), FALSE)
Title(s) == TitleFrom(s, FALSE)

\* str.replace(old, new) for one-character old and new.
RECURSIVE Replace(_, _, _)
Replace(s, old, new) ==
    IF s = <<>> THEN <<>>
    ELSE <<(IF Head(s) = old THEN new ELSE Head(s))>> \o Replace(Tail(s), old, new)

\* int(str): an optional sign and at least one digit, or ValueError.
RECURSIVE DigitsValue(_, _)
DigitsValue(s, acc) ==
    IF s = <<>> THEN acc
    ELSE DigitsValue(Tail(s), 10 * acc + (IndexIn(Head(s), Digit) - 1))
IsDigits(s) == s # <<>> /\ \A i \in DOMAIN s : s[i] \in DigitSet
ParseInt(s) ==
    IF s # <<>> /\ Head(s) \in {"-", "+"} /\ IsDigits(Tail(s))
    THEN [exc |-> "None",
          v |-> IF Head(s) = "-" THEN 0 - DigitsValue(Tail(s), 0) ELSE DigitsValue(Tail(s), 0)]
    ELSE IF IsDigits(s) THEN [exc |-> "None", v |-> DigitsValue(s, 0)]
    ELSE [exc |-> "ValueError", v |-> 0]

\* int(value): the value, or the exception it raises.
IntOf(value) ==
    CASE value.t = "int" -> [exc |-> "None", v |-> value.v]
      [] value.t = "str" -> ParseInt(value.v)
      [] OTHER -> [exc |-> "TypeError", v |-> 0]

\* str(value) as written into a text field.
StrOf(value) ==
    CASE value.t = "str" -> Join(value.v)
      [] value.t = "int" -> ToString(value.v)
      [] value.t = "None" -> "None"
      [] OTHER -> "{...}"

Min(a, b) == IF a < b THEN a ELSE b

Yes == NameObject("/Yes")
Off == NameObject("/Off")

-----------------------------------------------------------------------------
(* The renderers.  Each returns [exc, items]: the exception that escapes   *)
(* it ("None" when it returns) and the dict it returns, as the sequence of *)
(* its <<key, value>> items in insertion order.                            *)

\* try: val = int(value)  except (ValueError, TypeError): val = default
CoerceNoHandler(value, default) == IntOf(value)
Coerce(value, default) ==
    LET r == IntOf(value) IN
    IF r.exc \in {"ValueError", "TypeError"} THEN [exc |-> "None", v |-> default] ELSE r

BlockSize == 8
VirtueSize == 5
MaxSlots == 10

CalculateDotsSuffixAtLimit(start_index, value, block_size) ==
    LET c == Coerce(value, 0)
        val == c.v
        normal_limit == Min(val, block_size)
    IN [exc |-> c.exc,
        items |-> [i \in 1..block_size |->
                      <<"dot" \o ToString(start_index + (i - 1)),
                        IF (i - 1) < normal_limit THEN Yes ELSE Off>>]
                  \o <<(<<"dot" \o ToString(start_index + block_size - 1) \o "a",
                         IF val >= block_size THEN Yes ELSE Off>>)>>]
CalculateDots(start_index, value, block_size) ==
    LET c == Coerce(value, 0)
        val == c.v
        normal_limit == Min(val, block_size)
    IN [exc |-> c.exc,
        items |-> IF c.exc # "None" THEN <<>>
                  ELSE [i \in 1..block_size |->
                           <<"dot" \o ToString(start_index + (i - 1)),
                             IF (i - 1) < normal_limit THEN Yes ELSE Off>>]
                       \o <<(<<"dot" \o ToString(start_index + block_size - 1) \o "a",
                              IF val > block_size THEN Yes ELSE Off>>)>>]

CalculateVirtues(start_index, value) ==
    LET c == Coerce(value, 1)
        val == Min(c.v, VirtueSize)
    IN [exc |-> c.exc,
        items |-> IF c.exc # "None" THEN <<>>
                  ELSE [i \in 1..VirtueSize |->
                           <<"dot" \o ToString(start_index + (i - 1)),
                             IF (i - 1) < val THEN Yes ELSE Off>>]]

CalculateTrackerOffByOne(prefix, value, max_slots) ==
    LET c == Coerce(value, 0)
        val == c.v
    IN [exc |-> c.exc,
        items |-> [i \in 1..max_slots |->
                      <<prefix \o ToString(i), IF i < val THEN Yes ELSE Off>>]]
CalculateTracker(prefix, value, max_slots) ==
    LET c == Coerce(value, 0)
        val == c.v
    IN [exc |-> c.exc,
        items |-> IF c.exc # "None" THEN <<>>
                  ELSE [i \in 1..max_slots |->
                           <<prefix \o ToString(i), IF i <= val THEN Yes ELSE Off>>]]

-----------------------------------------------------------------------------
(* generate_character_stream: the pure parts.                              *)

MainSlots == 6
MiscLines == 13

\* sorted(d.items(), key=lambda x: x[1], reverse=True): a stable sort, so
\* an item goes behind every item whose rating is at least its own.
RECURSIVE InsertByRating(_, _)
InsertByRating(sorted, x) ==
    IF sorted = <<>> THEN <<x>>
    ELSE IF Head(sorted)[2] >= x[2]
         THEN <<Head(sorted)>> \o InsertByRating(Tail(sorted), x)
         ELSE <<x>> \o sorted
RECURSIVE InsertBeforeTies(_, _)
InsertBeforeTies(sorted, x) ==
    IF sorted = <<>> THEN <<x>>
    ELSE IF Head(sorted)[2] > x[2]
         THEN <<Head(sorted)>> \o InsertBeforeTies(Tail(sorted), x)
         ELSE <<x>> \o sorted
RECURSIVE SortFrom(_, _)
SortFrom(items, sorted) ==
    IF items = <<>> THEN sorted
    ELSE SortFrom(Tail(items), InsertByRating(sorted, Head(items)))
RECURSIVE UnstableSortFrom(_, _)
UnstableSortFrom(items, sorted) ==
    IF items = <<>> THEN sorted
    ELSE UnstableSortFrom(Tail(items), InsertBeforeTies(sorted, Head(items)))
SortedUnstable(items) == UnstableSortFrom(items, <<>>)
SortedByRating(items) == SortFrom(items, <<>>)

\* s[:n] and s[n:]
Take(s, n) == SubSeq(s, 1, Min(n, Len(s)))
Drop(s, n) == SubSeq(s, n + 1, Len(s))

MainOf(sorted) == Take(sorted, MainSlots)
OverflowOf(sorted) == Drop(sorted, MainSlots)

\* name.title().replace('_', ' ')
Label(name) == Join(Replace(Title(name), "_", " "))

\* f"{name.title().replace('_', ' ')}: {val}"
OverflowLine(item) == Label(item[1]) \o ": " \o ToString(item[2])

OverflowSection(heading, overflow) ==
    IF overflow = <<>> THEN <<>>
    ELSE <<heading>> \o [i \in 1..Len(overflow) |-> OverflowLine(overflow[i])] \o <<"">>

OtherLines(overflow_d, overflow_b) ==
    <<"OTHER TRAITS", "">>
    \o OverflowSection("--- Additional Disciplines ---", overflow_d)
    \o OverflowSection("--- Additional Backgrounds ---", overflow_b)

\* for i, line in enumerate(other_lines): if i < 13: form_fields[f"misc{i+1}"] = line
MiscItemsUncapped(lines) ==
    [i \in 1..Len(lines) |-> <<"misc" \o ToString(i), Text(lines[i])>>]
MiscItems(lines) ==
    [i \in 1..Min(Len(lines), MiscLines) |-> <<"misc" \o ToString(i), Text(lines[i])>>]

\* A str value as it lands in the FieldMap; any other value lands unchanged.
FieldValue(v) == IF v.t = "str" THEN Text(Join(v.v)) ELSE v

\* x.get(key, {}).get("name", "") if isinstance(x.get(key), dict) else str(x.get(key, ""))
ResolveName(cd, key) ==
    IF Get(cd, key, PyNone).t = "dict"
    THEN FieldValue(Get(Get(cd, key, PyDict(EmptyDict)).v, "name", PyStr(<<>>)))
    ELSE Text(StrOf(Get(cd, key, PyStr(<<>>))))

\* x.get("clan", {}).get("weakness", "") if isinstance(x.get("clan"), dict) else ""
ResolveWeakness(cd) ==
    IF Get(cd, "clan", PyNone).t = "dict"
    THEN FieldValue(Get(Get(cd, "clan", PyDict(EmptyDict)).v, "weakness", PyStr(<<>>)))
    ELSE Text("")

TextMapping(cd) ==
    << <<"name", FieldValue(Get(cd, "name", PyStr(<<>>)))>>,
       <<"player", FieldValue(Get(cd, "player", PyStr(<<>>)))>>,
       <<"chronicle", FieldValue(Get(cd, "chronicle", PyStr(<<>>)))>>,
       <<"nature", ResolveName(cd, "nature")>>,
       <<"demeanor", ResolveName(cd, "demeanor")>>,
       <<"concept", ResolveName(cd, "concept")>>,
       <<"Clan", ResolveName(cd, "clan")>>,
       <<"gen", Text(StrOf(Get(cd, "generation", PyStr(<<>>))))>>,
       <<"sire", FieldValue(Get(cd, "sire", PyStr(<<>>)))>>,
       <<"ppt", Text(StrOf(Get(cd, "bloodPointsPerTurn", PyStr(<<>>))))>>,
       <<"weakness", ResolveWeakness(cd)>>,
       <<"experience", Text(StrOf(Get(cd, "spentExperience", PyInt(0))) \o "/"
                            \o StrOf(Get(cd, "totalExperience", PyInt(0))))>>,
       <<"misctitle", Text(" ")>> >>

attr_order ==
    <<"strength", "dexterity", "stamina",
      "charisma", "manipulation", "appearance",
      "perception", "intelligence", "wits">>

ability_order ==
    <<"alertness", "athletics", "awareness", "brawl", "empathy",
      "expression", "intimidation", "leadership", "streetwise", "subterfuge",
      "animal_ken", "crafts", "drive", "etiquette", "firearms",
      "larceny", "melee", "performance", "stealth", "survival",
      "academics", "computer", "finance", "investigation", "law",
      "medicine", "occult", "politics", "science", "technology">>

\* start_id of the i-th (0-based) block of each category.
AttributeStart(i) == 1 + (i * 8)
AbilityStart(i) == 73 + (i * 8)
DisciplineStartOnAbilities(i) == 305 + (i * 8)
DisciplineStart(i) == 313 + (i * 8)
BackgroundStart(i) == 361 + (i * 8)
VirtueStart(name) ==
    CASE name = "conscience" -> 409
      [] name = "self_control" -> 414
      [] OTHER -> 419

virtue_order == <<"conscience", "self_control", "courage">>

\* One "form_fields[key] = value" as a one-item update.
Assign(key, value) == [exc |-> "None", items |-> << <<key, value>> >>]

AttributeBlocks(cd) ==
    LET attributes == Get(cd, "attributes", EmptyDict) IN
    [i \in 1..Len(attr_order) |->
        CalculateDots(AttributeStart(i - 1), Get(attributes, attr_order[i], PyInt(1)), BlockSize)]

AbilityBlocks(cd) ==
    LET abilities == Get(cd, "abilities", EmptyDict) IN
    [i \in 1..Len(ability_order) |->
        CalculateDots(AbilityStart(i - 1), Get(abilities, ability_order[i], PyInt(0)), BlockSize)]

\* The label, then the dot block, of each main slot (2 updates per slot).
DisciplineBlocksShifted(main) ==
    [j \in 1..(2 * Len(main)) |->
        LET i == (j + 1) \div 2 IN
        IF j % 2 = 1
        THEN Assign("disciplines" \o ToString(i + 1), Text(Label(main[i][1])))
        ELSE CalculateDots(DisciplineStart(i - 1), PyInt(main[i][2]), BlockSize)]
DisciplineBlocks(main) ==
    [j \in 1..(2 * Len(main)) |->
        LET i == (j + 1) \div 2 IN
        IF j % 2 = 1
        THEN Assign("disciplines" \o ToString(i), Text(Label(main[i][1])))
        ELSE CalculateDots(DisciplineStart(i - 1), PyInt(main[i][2]), BlockSize)]

BackgroundBlocks(main) ==
    [j \in 1..(2 * Len(main)) |->
        LET i == (j + 1) \div 2 IN
        IF j % 2 = 1
        THEN Assign("back" \o ToString(i), Text(Label(main[i][1])))
        ELSE CalculateDots(BackgroundStart(i - 1), PyInt(main[i][2]), BlockSize)]

VirtueBlocks(cd) ==
    LET virtues == Get(cd, "virtues", EmptyDict) IN
    [i \in 1..Len(virtue_order) |->
        CalculateVirtues(VirtueStart(virtue_order[i]), Get(virtues, virtue_order[i], PyInt(1)))]

TrackerBlocks(cd) ==
    << CalculateTracker("hdot", Get(cd, "humanity", PyInt(7)), MaxSlots),
       CalculateTracker("willdot", Get(cd, "willpower", PyInt(6)), MaxSlots) >>

\* The dict a sequence of items makes: the last item of a key wins.
Keys(items) == {items[i][1] : i \in DOMAIN items}
RECURSIVE DictOf(_)
DictOf(items) ==
    IF items = <<>> THEN [k \in {} |-> PyNone]
    ELSE LET n == Len(items) IN
         (items[n][1] :> items[n][2]) @@ DictOf(SubSeq(items, 1, n - 1))

\* ff.update(d): d's value for every key of d, ff's for the others.
Update(ff, d) == d @@ ff

\* form_fields.update(block) for each block in turn, stopping at the first
\* block whose computation raised.  st = [ff, ow, exc].
RECURSIVE UpdateAll(_, _)
UpdateAll(st, blocks) ==
    IF blocks = <<>> THEN st
    ELSE LET b == Head(blocks) IN
         IF b.exc # "None" THEN [st EXCEPT !.exc = b.exc]
         ELSE UpdateAll([ff |-> Update(st.ff, DictOf(b.items)),
                         ow |-> st.ow \cup (Keys(b.items) \cap DOMAIN st.ff),
                         exc |-> "None"],
                        Tail(blocks))

-----------------------------------------------------------------------------
(* app/models.py: the request model.                                       *)

RefKeys == {"concept", "clan", "nature", "demeanor"}

UnknownKindred == <<"U","n","k","n","o","w","n"," ","K","i","n","d","r","e","d">>

\* ReferenceData(**body): id, name and description default to "".
ReferenceData(body) ==
    [t |-> "ReferenceData",
     v |-> [k \in {"id", "name", "description"} |-> Get(body, k, PyStr(<<>>))]]

CharacterDefaults ==
    [name |-> PyStr(UnknownKindred), player |-> PyStr(<<>>), chronicle |-> PyStr(<<>>),
     sire |-> PyStr(<<>>),
     concept |-> PyNone, clan |-> PyNone, nature |-> PyNone, demeanor |-> PyNone,
     generation |-> PyInt(13), age |-> PyInt(0), ageCategory |-> PyStr(<<>>),
     bloodPointsPerTurn |-> PyInt(1), maximumBloodPool |-> PyInt(10),
     totalExperience |-> PyInt(0), spentExperience |-> PyInt(0),
     attributes |-> EmptyDict, abilities |-> EmptyDict,
     disciplines |-> <<>>, backgrounds |-> <<>>, virtues |-> EmptyDict,
     humanity |-> PyInt(7), willpower |-> PyInt(6)]

\* CharacterRequest(**body) for a body that passes validation: a field the
\* body does not carry takes its default, a reference becomes ReferenceData.
CharacterRequest(body) ==
    [t |-> "CharacterRequest",
     v |-> [k \in DOMAIN CharacterDefaults |->
              IF k \notin DOMAIN body THEN CharacterDefaults[k]
              ELSE IF k \in RefKeys /\ body[k].t = "dict" THEN ReferenceData(body[k].v)
              ELSE body[k]]]

\* character.model_dump(): the fields as a dict, nested models as dicts.
ModelDump(c) ==
    [k \in DOMAIN c.v |->
        IF k \in RefKeys /\ c.v[k].t = "ReferenceData" THEN PyDict(c.v[k].v) ELSE c.v[k]]

-----------------------------------------------------------------------------
(* app/main.py: generate_pdf.                                              *)

\* character.name.replace(" ", "_") if character.name else "Character"
SafeNameKeepSpaces(name) == IF name # <<>> THEN Join(name) ELSE "Character"
SafeName(name) == IF name # <<>> THEN Join(Replace(name, " ", "_")) ELSE "Character"

Filename(name) == SafeName(name) \o "_Sheet.pdf"

\* except FileNotFoundError -> 500; except Exception -> 503
StatusForAlwaysRetry(e) == IF e = "None" THEN 200 ELSE 503
StatusFor(e) ==
    IF e = "None" THEN 200
    ELSE IF e = "FileNotFoundError" THEN 500
    ELSE 503

-----------------------------------------------------------------------------
(* The inputs explored.                                                    *)

\* Distinct trait names that exercise title() and replace(): "ab", "b_b", "CD_c", ...
TraitName(i) ==
    CASE i % 3 = 1 -> <<LowerCase[i], LowerCase[i + 1]>>
      [] i % 3 = 2 -> <<LowerCase[i], "_", LowerCase[i]>>
      [] OTHER -> <<UpperCase[i], UpperCase[i + 1], "_", LowerCase[i]>>

\* A trait mapping: its items in insertion order, names unique.
Traits(ratings) == [i \in 1..Len(ratings) |-> <<TraitName(i), ratings[i]>>]

RankRatings == {1, 3}
TieRatings == {0, 9}

RatingSeqs(n, R) == UNION {[1..k -> R] : k \in 0..n}

\* Ratings cycling through 1, 2, 3 from an offset.
Pattern(n, o) == Traits([i \in 1..n |-> ((i + o) % 3) + 1])

Ratings == (0 - MaxNegative)..MaxRating

\* What a caller of the renderers may pass as a rating.
RatingInputs ==
    {PyInt(n) : n \in Ratings}
    \cup {PyNone, PyStr(<<>>), PyStr(<<"a","b","c">>), PyStr(<<"7">>), PyStr(<<"-","2">>)}

TheoBell == <<"T","h","e","o"," ","B","e","l","l">>
NameChoices == {<<>>, TheoBell, <<"a"," "," ","b">>, <<"X">>}

Brujah == ("id" :> PyStr(<<"b","r","u">>)) @@ ("name" :> PyStr(<<"B","r","u","j","a","h">>))
Rebel == ("name" :> PyStr(<<"R","e","b","e","l">>))
IdOnly == ("id" :> PyStr(<<"x">>))

\* A JSON member that may be left out of the body.
Member(key, values) == {EmptyDict} \cup {key :> x : x \in values}

IdentityBodies ==
    {n @@ c @@ a @@ d @@ k :
        n \in Member("name", {PyStr(x) : x \in NameChoices}),
        c \in Member("clan", {PyNone, PyDict(Brujah), PyDict(IdOnly)}),
        a \in Member("nature", {PyDict(Rebel), PyDict(IdOnly)}),
        d \in Member("demeanor", {PyDict(Rebel)}),
        k \in Member("concept", {PyNone})}

RankedBodies ==
    {"disciplines" :> Traits(r) : r \in RatingSeqs(MaxRanked, RankRatings)}
    \cup {"backgrounds" :> Traits(r) : r \in RatingSeqs(MaxRanked, TieRatings)}

ManyBodies ==
    {("disciplines" :> Pattern(nd, o)) @@ ("backgrounds" :> Pattern(nb, o + 1)) :
        nd \in 0..MaxMany, nb \in 0..MaxMany, o \in 0..2}

RatingBodies ==
    {("attributes" :> ("strength" :> PyInt(r))) @@ ("abilities" :> ("technology" :> PyInt(r)))
       @@ ("virtues" :> ("courage" :> PyInt(r))) @@ ("disciplines" :> Traits(<<r>>))
       @@ ("humanity" :> PyInt(h)) @@ ("willpower" :> PyInt(10 - h)) :
        r \in Ratings, h \in 0..10}

\* Request bodies that pass CharacterRequest's validation.
Bodies == IdentityBodies \cup RankedBodies \cup ManyBodies \cup RatingBodies

BrujahWithWeakness == Brujah @@ ("weakness" :> PyStr(<<"r","a","g","e">>))

\* Dicts a library caller hands to generate_character_stream directly.
DirectDicts ==
    {c @@ a : c \in Member("clan", {PyStr(<<"G","a","n">>), PyDict(BrujahWithWeakness),
                                      PyDict(Brujah), PyDict(IdOnly), PyNone}),
              a \in Member("nature", {PyStr(<<"R","e","b">>), PyDict(Rebel)})}
    \cup {("humanity" :> x) @@ ("willpower" :> y) @@ ("virtues" :> ("conscience" :> x))
            @@ ("attributes" :> ("wits" :> y)) :
            x \in RatingInputs, y \in {PyInt(12), PyNone, PyStr(<<"a","b","c">>)}}

-----------------------------------------------------------------------------
(* The state machine.                                                      *)

NoCharacter == [t |-> "None", v |-> EmptyDict]
NoFields == [k \in {} |-> PyNone]
NoStream == [written |-> FALSE, fields |-> NoFields]
NoResponse == [status |-> 0, filename |-> "", body |-> NoStream]
NoCall == [fn |-> "none", start |-> 0, prefix |-> "", value |-> PyNone,
           ret |-> [exc |-> "None", items |-> <<>>]]

StartOffsets == {AttributeStart(0), AbilityStart(29), DisciplineStart(5), VirtueStart("courage")}

Init ==
    /\ pc = "idle"
    /\ caller = "none"
    /\ template_exists \in BOOLEAN
    /\ request_body = EmptyDict
    /\ character = NoCharacter
    /\ char_data = EmptyDict
    /\ main_disciplines = <<>>
    /\ overflow_disciplines = <<>>
    /\ main_backgrounds = <<>>
    /\ overflow_backgrounds = <<>>
    /\ other_lines = <<>>
    /\ form_fields = NoFields
    /\ overwritten = {}
    /\ exc = "None"
    /\ output_stream = NoStream
    /\ response = NoResponse
    /\ call = NoCall

locals == <<main_disciplines, overflow_disciplines, main_backgrounds,
            overflow_backgrounds, other_lines>>
request == <<caller, request_body, character, char_data>>

\* The template asset is deployed or removed.  Nothing reads the file after
\* PdfReader has opened it, so later changes are not explored.
ToggleTemplate ==
    /\ pc \in {"idle", "open"}
    /\ template_exists' = ~template_exists
    /\ UNCHANGED <<pc, request, locals, form_fields, overwritten, exc,
                   output_stream, response, call>>

\* A direct call of one renderer.
CallCalculateDots ==
    /\ pc = "idle"
    /\ \E s \in StartOffsets, x \in RatingInputs :
          call' = [fn |-> "_calculate_dots", start |-> s, prefix |-> "", value |-> x,
                   ret |-> CalculateDots(s, x, BlockSize)]
    /\ pc' = "done"
    /\ UNCHANGED <<request, template_exists, locals, form_fields, overwritten,
                   exc, output_stream, response>>

CallCalculateVirtues ==
    /\ pc = "idle"
    /\ \E s \in StartOffsets, x \in RatingInputs :
          call' = [fn |-> "_calculate_virtues", start |-> s, prefix |-> "", value |-> x,
                   ret |-> CalculateVirtues(s, x)]
    /\ pc' = "done"
    /\ UNCHANGED <<request, template_exists, locals, form_fields, overwritten,
                   exc, output_stream, response>>

CallCalculateTracker ==
    /\ pc = "idle"
    /\ \E p \in {"hdot", "willdot"}, x \in RatingInputs :
          call' = [fn |-> "_calculate_tracker", start |-> 0, prefix |-> p, value |-> x,
                   ret |-> CalculateTracker(p, x, MaxSlots)]
    /\ pc' = "done"
    /\ UNCHANGED <<request, template_exists, locals, form_fields, overwritten,
                   exc, output_stream, response>>

\* POST /generate-pdf with a valid body: the handler builds the service and
\* dumps the model.
GeneratePdf ==
    /\ pc = "idle"
    /\ \E body \in Bodies :
          /\ request_body' = body
          /\ character' = CharacterRequest(body)
          /\ char_data' = ModelDump(CharacterRequest(body))
    /\ caller' = "http"
    /\ pc' = "check_template"
    /\ UNCHANGED <<call, template_exists, locals, form_fields, overwritten, exc,
                   output_stream, response>>

\* generate_character_stream called with a plain dict.
DirectCall ==
    /\ pc = "idle"
    /\ \E d \in DirectDicts : char_data' = d
    /\ caller' = "direct"
    /\ pc' = "check_template"
    /\ UNCHANGED <<call, request_body, character, template_exists, locals, form_fields, overwritten, exc,
                   output_stream, response>>

\* if not os.path.exists(self.template_path): raise FileNotFoundError
CheckTemplate ==
    /\ pc = "check_template"
    /\ IF template_exists
       THEN pc' = "open" /\ exc' = exc
       ELSE pc' = "raised" /\ exc' = "FileNotFoundError"
    /\ UNCHANGED <<request, template_exists, locals, form_fields, overwritten,
                   output_stream, response, call>>

\* PdfReader(template_path); PdfWriter(); writer.append(reader).  The file may
\* have been removed since the check, or not be a readable PDF.
OpenTemplate ==
    /\ pc = "open"
    /\ \E readable \in BOOLEAN :
          IF ~template_exists THEN pc' = "raised" /\ exc' = "FileNotFoundError"
          ELSE IF ~readable THEN pc' = "raised" /\ exc' = "PdfReadError"
          ELSE pc' = "rank" /\ exc' = exc
    /\ UNCHANGED <<request, template_exists, locals, form_fields, overwritten,
                   output_stream, response, call>>

\* sorted_discs, sorted_backs and their [:6] / [6:] slices.
RankAndSplit ==
    /\ pc = "rank"
    /\ LET sorted_discs == SortedByRating(Get(char_data, "disciplines", <<>>))
           sorted_backs == SortedByRating(Get(char_data, "backgrounds", <<>>))
       IN /\ main_disciplines' = MainOf(sorted_discs)
          /\ overflow_disciplines' = OverflowOf(sorted_discs)
          /\ main_backgrounds' = MainOf(sorted_backs)
          /\ overflow_backgrounds' = OverflowOf(sorted_backs)
    /\ pc' = "misc"
    /\ UNCHANGED <<request, template_exists, other_lines, form_fields, overwritten, exc,
                   output_stream, response, call>>

\* One or more form_fields.update(...) calls, then on to `next`.
Stage(here, blocks, next) ==
    /\ pc = here
    /\ \E st \in {UpdateAll([ff |-> form_fields, ow |-> overwritten, exc |-> "None"], blocks)} :
          /\ form_fields' = st.ff
          /\ overwritten' = st.ow
          /\ exc' = st.exc
          /\ pc' = IF st.exc = "None" THEN next ELSE "raised"

\* other_lines and the misc<N> fields.
MiscFields ==
    /\ other_lines' = OtherLines(overflow_disciplines, overflow_backgrounds)
    /\ Stage("misc",
             << [exc |-> "None",
                 items |-> MiscItems(OtherLines(overflow_disciplines, overflow_backgrounds))] >>,
             "text")
    /\ UNCHANGED <<request, template_exists, main_disciplines, overflow_disciplines,
                   main_backgrounds, overflow_backgrounds, output_stream, response, call>>

stage_frame == <<request, template_exists, locals, output_stream, response, call>>

TextFields ==
    /\ Stage("text", << [exc |-> "None", items |-> TextMapping(char_data)] >>, "attributes")
    /\ UNCHANGED stage_frame

Attributes ==
    /\ Stage("attributes", AttributeBlocks(char_data), "abilities")
    /\ UNCHANGED stage_frame

Abilities ==
    /\ Stage("abilities", AbilityBlocks(char_data), "disciplines")
    /\ UNCHANGED stage_frame

Disciplines ==
    /\ Stage("disciplines", DisciplineBlocks(main_disciplines), "backgrounds")
    /\ UNCHANGED stage_frame

Backgrounds ==
    /\ Stage("backgrounds", BackgroundBlocks(main_backgrounds), "virtues")
    /\ UNCHANGED stage_frame

Virtues ==
    /\ Stage("virtues", VirtueBlocks(char_data), "trackers")
    /\ UNCHANGED stage_frame

Trackers ==
    /\ Stage("trackers", TrackerBlocks(char_data), "write")
    /\ UNCHANGED stage_frame

\* writer.update_page_form_field_values(...); writer.write(output_stream).
\* pypdf may reject the template's fields or fail to serialize.
WriteStream ==
    /\ pc = "write"
    /\ \E ok \in BOOLEAN :
          IF ok
          THEN /\ output_stream' = [written |-> TRUE, fields |-> form_fields]
               /\ pc' = "returned"
               /\ exc' = exc
          ELSE /\ output_stream' = output_stream
               /\ pc' = "raised"
               /\ exc' = "PdfWriteError"
    /\ UNCHANGED <<request, template_exists, locals, form_fields, overwritten,
                   response, call>>

\* generate_pdf returns the StreamingResponse.
Respond ==
    /\ pc = "returned"
    /\ caller = "http"
    /\ response' = [status |-> StatusFor(exc),
                    filename |-> Filename(character.v["name"].v),
                    body |-> output_stream]
    /\ pc' = "done"
    /\ UNCHANGED <<request, template_exists, locals, form_fields, overwritten, exc,
                   output_stream, call>>

\* generate_pdf's except clauses turn the exception into an HTTPException.
HandleException ==
    /\ pc = "raised"
    /\ caller = "http"
    /\ response' = [status |-> StatusFor(exc), filename |-> "", body |-> NoStream]
    /\ pc' = "done"
    /\ UNCHANGED <<request, template_exists, locals, form_fields, overwritten, exc,
                   output_stream, call>>

\* The library caller gets the stream, or the exception.
ReturnToCaller ==
    /\ pc \in {"returned", "raised"}
    /\ caller = "direct"
    /\ pc' = "done"
    /\ UNCHANGED <<request, template_exists, locals, form_fields, overwritten, exc,
                   output_stream, response, call>>

\* The request is over; nothing of it is kept.
Finish ==
    /\ pc = "done"
    /\ pc' = "idle"
    /\ caller' = "none"
    /\ request_body' = EmptyDict
    /\ character' = NoCharacter
    /\ char_data' = EmptyDict
    /\ main_disciplines' = <<>>
    /\ overflow_disciplines' = <<>>
    /\ main_backgrounds' = <<>>
    /\ overflow_backgrounds' = <<>>
    /\ other_lines' = <<>>
    /\ form_fields' = NoFields
    /\ overwritten' = {}
    /\ exc' = "None"
    /\ output_stream' = NoStream
    /\ response' = NoResponse
    /\ call' = NoCall
    /\ UNCHANGED template_exists

Next ==
    \/ ToggleTemplate
    \/ CallCalculateDots
    \/ CallCalculateVirtues
    \/ CallCalculateTracker
    \/ GeneratePdf
    \/ DirectCall
    \/ CheckTemplate
    \/ OpenTemplate
    \/ RankAndSplit
    \/ MiscFields
    \/ TextFields
    \/ Attributes
    \/ Abilities
    \/ Disciplines
    \/ Backgrounds
    \/ Virtues
    \/ Trackers
    \/ WriteStream
    \/ Respond
    \/ HandleException
    \/ ReturnToCaller
    \/ Finish

Spec == Init /\ [][Next]_vars

-----------------------------------------------------------------------------
(* Properties.                                                             *)

\* The number of fields of a block a rating r fills: min(max(r, 0), size).
Filled(r, size) == IF r < 0 THEN 0 ELSE IF r > size THEN size ELSE r

DotKey(n) == "dot" \o ToString(n)
Returned == DictOf(call.ret.items)
ActiveFields(d) == {k \in DOMAIN d : d[k] = Yes}

\* C1: for every integer rating r and start offset s, _calculate_dots(s, r)
\* returns exactly the 8 fields dot<s>..dot<s+7> and the suffix field
\* dot<s+7>a; dot<s+i> is active iff i < min(max(r,0), 8), so the active dots
\* are that contiguous prefix, and the suffix is active iff r > 8.
C1_DotsBlock ==
    (call.fn = "_calculate_dots" /\ call.value.t = "int") =>
        LET s == call.start
            r == call.value.v
            suffix == DotKey(s + 7) \o "a"
        IN /\ call.ret.exc = "None"
           /\ Len(call.ret.items) = 9
           /\ DOMAIN Returned = {DotKey(s + i) : i \in 0..7} \cup {suffix}
           /\ \A i \in 0..7 :
                 Returned[DotKey(s + i)] = IF i < Filled(r, 8) THEN Yes ELSE Off
           /\ Cardinality(ActiveFields(Returned) \ {suffix}) = Filled(r, 8)
           /\ Returned[suffix] = IF r > 8 THEN Yes ELSE Off

\* C1 witness: a rating above 8 was rendered, all 8 dots and the suffix active.
C1_Witness ==
    /\ call.fn = "_calculate_dots"
    /\ call.value.t = "int"
    /\ call.value.v > 8
    /\ Cardinality(ActiveFields(Returned)) = 9

\* Invalid ratings: missing, text that is no number, and negative integers.
IsMissing(x) == x.t = "None"
IsNonNumeric(x) ==
    x.t = "str" /\ (x.v = <<>> \/ \E i \in DOMAIN x.v : x.v[i] \in LowerSet \cup UpperSet)
IsNegative(x) == x.t = "int" /\ x.v < 0
IsInvalid(x) == IsMissing(x) \/ IsNonNumeric(x) \/ IsNegative(x)

\* What can be in flight when no renderer raises: nothing, or an error of
\* the file system or of pypdf.
PlatformErrors == {"None", "FileNotFoundError", "PdfReadError", "PdfWriteError"}

\* C3 as stated: an invalid rating never raises, neither in a direct call nor
\* while a character is assembled; _calculate_dots and
\* _calculate_tracker render it with no active field, and _calculate_virtues
\* renders it as 1, exactly the first of its 5 fields active.
C3_AsStated ==
    /\ exc \in PlatformErrors
    /\ (call.fn # "none" /\ IsInvalid(call.value)) =>
        /\ call.ret.exc = "None"
        /\ call.fn \in {"_calculate_dots", "_calculate_tracker"} =>
              ActiveFields(Returned) = {}
        /\ call.fn = "_calculate_virtues" =>
              /\ Len(call.ret.items) = 5
              /\ ActiveFields(Returned) = {DotKey(call.start)}

\* C3 amended: an invalid rating never raises, neither in a direct call nor
\* while a character is assembled; _calculate_dots and
\* _calculate_tracker render it with no active field; _calculate_virtues
\* renders a missing or non-numeric rating as 1 (exactly the first of its 5
\* fields active) and a negative rating with no active field.
C3_InvalidRatings ==
    /\ exc \in PlatformErrors
    /\ (call.fn # "none" /\ IsInvalid(call.value)) =>
        /\ call.ret.exc = "None"
        /\ call.fn \in {"_calculate_dots", "_calculate_tracker"} =>
              ActiveFields(Returned) = {}
        /\ call.fn = "_calculate_virtues" =>
              /\ Len(call.ret.items) = 5
              /\ DOMAIN Returned = {DotKey(call.start + i) : i \in 0..4}
              /\ ActiveFields(Returned) =
                    IF IsNegative(call.value) THEN {} ELSE {DotKey(call.start)}

\* C3 witness: _calculate_virtues was given a missing rating and returned
\* its first field active.
C3_Witness ==
    /\ call.fn = "_calculate_virtues"
    /\ IsMissing(call.value)
    /\ ActiveFields(Returned) = {DotKey(call.start)}

\* Positions at which the ranking of the request has been done.
Ranked == pc \in {"misc", "text", "attributes", "abilities", "disciplines",
                  "backgrounds", "virtues", "trackers", "write", "returned"}

IndexOfName(items, name) == CHOOSE i \in DOMAIN items : items[i][1] = name

\* main ++ overflow is the input ordered by rating descending, ties in
\* insertion order, and main is its first 6 entries at most.
SplitIsRanking(input, main, overflow) ==
    LET all == main \o overflow IN
    /\ Len(main) <= 6
    /\ Len(main) = IF Len(input) < 6 THEN Len(input) ELSE 6
    /\ Len(all) = Len(input)
    /\ \A i \in DOMAIN input : Cardinality({j \in DOMAIN all : all[j] = input[i]}) = 1
    /\ \A j, k \in DOMAIN all :
          j < k => /\ all[j][2] >= all[k][2]
                   /\ all[j][2] = all[k][2] =>
                         IndexOfName(input, all[j][1]) < IndexOfName(input, all[k][1])

\* C2: for every disciplines or backgrounds mapping, main has at most 6
\* entries, main followed by overflow holds every input entry exactly once
\* ordered by rating descending, and entries of equal rating keep their
\* insertion order, also across the boundary between main and overflow.
C2_RankAndSplit ==
    Ranked =>
        /\ SplitIsRanking(Get(char_data, "disciplines", <<>>),
                          main_disciplines, overflow_disciplines)
        /\ SplitIsRanking(Get(char_data, "backgrounds", <<>>),
                          main_backgrounds, overflow_backgrounds)

\* C2 witness: a mapping was split with a tie across the boundary, the tied
\* entries not adjacent in the input.
C2_Witness ==
    /\ Ranked
    /\ Len(main_disciplines) = 6
    /\ overflow_disciplines # <<>>
    /\ main_disciplines[6][2] = overflow_disciplines[1][2]
    /\ main_disciplines[1][2] > main_disciplines[6][2]
    /\ LET input == Get(char_data, "disciplines", <<>>) IN
       IndexOfName(input, overflow_disciplines[1][1])
          > IndexOfName(input, main_disciplines[6][1]) + 1

\* Positions at which the misc fields of the request have been written.
MiscDone == pc \in {"text", "attributes", "abilities", "disciplines",
                    "backgrounds", "virtues", "trackers", "write", "returned"}

MiscKey(n) == "misc" \o ToString(n)
SectionLength(overflow) == IF overflow = <<>> THEN 0 ELSE Len(overflow) + 2

\* C5: the overflow text goes to misc1, misc2, ... in line order: the header,
\* then the Additional Disciplines section if a discipline overflowed, then
\* the Additional Backgrounds section if a background overflowed; the
\* FieldMap holds exactly the first min(lines, 13) lines, no misc<N> with
\* N > 13, and dropping the excess raises nothing.
C5_MiscLines ==
    MiscDone =>
        LET d == SectionLength(overflow_disciplines)
            b == SectionLength(overflow_backgrounds)
            n == Len(other_lines)
            kept == IF n < 13 THEN n ELSE 13
        IN /\ exc = "None"
           /\ n = 2 + d + b
           /\ other_lines[1] = "OTHER TRAITS"
           /\ d > 0 => /\ other_lines[3] = "--- Additional Disciplines ---"
                       /\ \A i \in 1..Len(overflow_disciplines) :
                             other_lines[3 + i] = OverflowLine(overflow_disciplines[i])
           /\ b > 0 => /\ other_lines[3 + d] = "--- Additional Backgrounds ---"
                       /\ \A i \in 1..Len(overflow_backgrounds) :
                             other_lines[3 + d + i] = OverflowLine(overflow_backgrounds[i])
           /\ \A i \in 1..kept :
                 /\ MiscKey(i) \in DOMAIN form_fields
                 /\ form_fields[MiscKey(i)] = Text(other_lines[i])
           /\ \A i \in 0..(n + 14) : i \notin 1..kept => MiscKey(i) \notin DOMAIN form_fields

\* C5 witness: more than 13 lines were built, both sections present, and
\* misc13 holds the 13th.
C5_Witness ==
    /\ MiscDone
    /\ Len(other_lines) > 13
    /\ overflow_disciplines # <<>>
    /\ overflow_backgrounds # <<>>
    /\ form_fields[MiscKey(13)] = Text(other_lines[13])

\* C6: in one run no FieldMap key is written by more than one step: no
\* update finds its key already present, and once every step has run the
\* FieldMap holds as many keys as the steps wrote: the kept misc lines, 13
\* text fields, 9 fields for each of the 9 attribute and 30 ability blocks,
\* a label and 9 fields for each main discipline and background, 5 fields
\* for each of the 3 virtues and 10 for each of the 2 trackers.
C6_DisjointKeys ==
    /\ overwritten = {}
    /\ pc \in {"write", "returned"} =>
          Cardinality(DOMAIN form_fields) =
              (IF Len(other_lines) < 13 THEN Len(other_lines) ELSE 13)
              + 13 + (9 * 9) + (30 * 9)
              + (10 * Len(main_disciplines)) + (10 * Len(main_backgrounds))
              + (3 * 5) + (2 * 10)

\* C6 witness: every step has run with all 6 discipline and background
\* slots used and all 13 misc lines written.
C6_Witness ==
    /\ pc = "write"
    /\ Len(main_disciplines) = 6
    /\ Len(main_backgrounds) = 6
    /\ Len(other_lines) >= 13
    /\ {MiscKey(13), "disciplines6", "back6", DotKey(360) \o "a", DotKey(408) \o "a",
        DotKey(423), "hdot10", "willdot10"} \subseteq DOMAIN form_fields

\* Positions at which the trackers of the request have been written.
TrackersDone == pc \in {"write", "returned"}

TrackerIs(d, prefix, r) ==
    /\ \A i \in 1..10 : prefix \o ToString(i) \in DOMAIN d
    /\ \A i \in 1..10 : d[prefix \o ToString(i)] = IF i <= Filled(r, 10) THEN Yes ELSE Off
    /\ Cardinality({i \in 1..10 : d[prefix \o ToString(i)] = Yes}) = Filled(r, 10)

\* C7: for every integer rating r, _calculate_tracker(prefix, r) returns
\* exactly prefix1..prefix10, of which the first min(max(r,0), 10) are
\* active; in a character, humanity 7 gives hdot1..hdot7 active and
\* hdot8..hdot10 inactive, and humanity 12 gives all 10 active and no field
\* beyond hdot10.
C7_Tracker ==
    /\ (call.fn = "_calculate_tracker" /\ call.value.t = "int") =>
          /\ call.ret.exc = "None"
          /\ Len(call.ret.items) = 10
          /\ DOMAIN Returned = {call.prefix \o ToString(i) : i \in 1..10}
          /\ TrackerIs(Returned, call.prefix, call.value.v)
    /\ (TrackersDone /\ Get(char_data, "humanity", PyInt(7)).t = "int") =>
          /\ TrackerIs(form_fields, "hdot", Get(char_data, "humanity", PyInt(7)).v)
          /\ \A i \in {0} \cup 11..(MaxRating + 2) :
                "hdot" \o ToString(i) \notin DOMAIN form_fields
    /\ (TrackersDone /\ Get(char_data, "willpower", PyInt(6)).t = "int") =>
          /\ TrackerIs(form_fields, "willdot", Get(char_data, "willpower", PyInt(6)).v)
          /\ \A i \in {0} \cup 11..(MaxRating + 2) :
                "willdot" \o ToString(i) \notin DOMAIN form_fields

\* C7 witness: a character with humanity 12 was rendered, hdot10 active.
C7_Witness ==
    /\ TrackersDone
    /\ Get(char_data, "humanity", PyInt(7)) = PyInt(12)
    /\ form_fields["hdot10"] = Yes

\* The slot the ranking gives an entry: one more than the entries rated
\* higher plus the entries of equal rating before it in the input.
SlotOf(input, i) ==
    1 + Cardinality({j \in DOMAIN input :
                        \/ input[j][2] > input[i][2]
                        \/ (input[j][2] = input[i][2] /\ j < i)})

DisciplinesDone == pc \in {"backgrounds", "virtues", "trackers", "write", "returned"}

DisciplineLines ==
    IF overflow_disciplines = <<>> THEN <<>>
    ELSE SubSeq(other_lines, 4, 3 + Len(overflow_disciplines))

TitleCased(name) == Join(Title(name))
TitleCasedSpaced(name) ==
    Join([i \in 1..Len(name) |-> IF Title(name)[i] = "_" THEN " " ELSE Title(name)[i]])

\* The placement of the disciplines; `spaced` tells whether a label shows the
\* title-cased name with its underscores replaced by spaces, or as they are.
DisciplinesPlaced(spaced) ==
    LET input == Get(char_data, "disciplines", <<>>)
        n == Len(input)
    IN /\ Len(DisciplineLines) = IF n > 6 THEN n - 6 ELSE 0
       /\ \A k \in (IF n < 6 THEN n + 1 ELSE 7)..(n + 2) :
             "disciplines" \o ToString(k) \notin DOMAIN form_fields
       /\ \A i \in DOMAIN input :
             LET k == SlotOf(input, i)
                 r == input[i][2]
                 s == 313 + (8 * (k - 1))
             IN IF k <= 6
                THEN /\ {"disciplines" \o ToString(k), DotKey(s + 7) \o "a"}
                           \cup {DotKey(s + x) : x \in 0..7} \subseteq DOMAIN form_fields
                     /\ form_fields["disciplines" \o ToString(k)] = Text(IF spaced THEN TitleCasedSpaced(input[i][1])
                                       ELSE TitleCased(input[i][1]))
                     /\ \A x \in 0..7 :
                           form_fields[DotKey(s + x)] = IF x < Filled(r, 8) THEN Yes ELSE Off
                     /\ form_fields[DotKey(s + 7) \o "a"] = IF r > 8 THEN Yes ELSE Off
                     /\ \A x \in DOMAIN DisciplineLines :
                           DisciplineLines[x] # TitleCasedSpaced(input[i][1]) \o ": " \o ToString(r)
                ELSE /\ k - 6 \in DOMAIN DisciplineLines
                     /\ DisciplineLines[k - 6] = TitleCasedSpaced(input[i][1]) \o ": " \o ToString(r)
                     /\ Cardinality({x \in DOMAIN other_lines :
                                       other_lines[x] = DisciplineLines[k - 6]}) = 1

\* C8 as stated: the min(n, 6) highest-rated disciplines (ties by input
\* order) fill slots 1..min(n, 6) in ranked order; slot k has the label
\* disciplines<k> holding the discipline's title-cased name and the dot
\* block at 313 + 8*(k-1) showing its rating; each other discipline gives
\* exactly one line of the Additional Disciplines section and no label.
C8_AsStated == DisciplinesDone => DisciplinesPlaced(FALSE)

\* C8 amended: as stated, the label holding the discipline's title-cased
\* name with every underscore replaced by a space.
C8_DisciplineSlots == DisciplinesDone => DisciplinesPlaced(TRUE)

\* C8 witness: 7 disciplines were placed: 6 slots with labels and one
\* discipline line in the overflow text.
C8_Witness ==
    /\ DisciplinesDone
    /\ Len(Get(char_data, "disciplines", <<>>)) = 7
    /\ Len(DisciplineLines) = 1
    /\ "disciplines6" \in DOMAIN form_fields
    /\ form_fields["disciplines2"] # form_fields["disciplines1"]

\* Positions at which the text fields of the request have been written.
TextDone == pc \in {"attributes", "abilities", "disciplines", "backgrounds",
                    "virtues", "trackers", "write", "returned"}

\* What the claim has a reference field hold: the reference's name ("" when
\* it has none), the string itself, or "" when the value is missing.
ResolvedAsClaimed(key) ==
    IF key \notin DOMAIN char_data \/ char_data[key].t = "None" THEN Text("")
    ELSE IF char_data[key].t = "dict"
         THEN (IF "name" \in DOMAIN char_data[key].v
               THEN Text(Join(char_data[key].v["name"].v)) ELSE Text(""))
    ELSE Text(Join(char_data[key].v))

\* C4: each of nature, demeanor, concept and Clan holds the reference's name
\* for a structured reference, the string for a plain string, and "" for a
\* missing value (key absent, or null as the request model dumps an unset
\* reference); with clan missing, Clan and weakness are both "".
C4_ReferenceText ==
    TextDone =>
        /\ form_fields["nature"] = ResolvedAsClaimed("nature")
        /\ form_fields["demeanor"] = ResolvedAsClaimed("demeanor")
        /\ form_fields["concept"] = ResolvedAsClaimed("concept")
        /\ form_fields["Clan"] = ResolvedAsClaimed("clan")
        /\ ("clan" \notin DOMAIN char_data \/ char_data["clan"].t = "None") =>
              form_fields["weakness"] = Text("")

\* Every step of the assembly has written its fields.
Complete(fields) ==
    {"misc1", "name", "experience", DotKey(1), DotKey(312) \o "a",
     DotKey(409), DotKey(423), "hdot10", "willdot10"} \subseteq DOMAIN fields

\* C9: a request ends in one of three ways.  The template-not-found error is
\* raised only when the template is absent and before any field is computed
\* or output produced, and is answered 500; any other failure is answered
\* 503; otherwise the complete document is returned.  A missing template is
\* never answered 503 and no other failure is answered 500.
C9_Outcomes ==
    /\ exc = "FileNotFoundError" =>
          /\ ~template_exists
          /\ form_fields = NoFields
          /\ other_lines = <<>>
          /\ output_stream = NoStream
    /\ (pc = "done" /\ caller = "http") =>
          /\ response.status \in {200, 500, 503}
          /\ response.status = 500 <=> exc = "FileNotFoundError"
          /\ response.status = 503 <=> exc \in {"PdfReadError", "PdfWriteError"}
          /\ response.status = 503 => template_exists
          /\ response.status = 200 <=> exc = "None"
          /\ response.status = 200 =>
                /\ response.body.written
                /\ response.body.fields = form_fields
                /\ Complete(response.body.fields)
          /\ response.status # 200 => response.body = NoStream

\* C9 witness: a request was answered 500 with no field computed.
C9_Witness ==
    /\ pc = "done"
    /\ caller = "http"
    /\ response.status = 500
    /\ form_fields = NoFields

\* The name with every space replaced by an underscore.
Underscored(name) == Join([i \in 1..Len(name) |-> IF name[i] = " " THEN "_" ELSE name[i]])

Answered == pc = "done" /\ caller = "http" /\ response.status = 200

\* C10 as stated: the filename is the name with every space replaced by an
\* underscore, followed by _Sheet.pdf, when the request carries a non-empty
\* name, and Character_Sheet.pdf when the name is absent or empty.
C10_AsStated ==
    Answered =>
        response.filename =
            IF "name" \in DOMAIN request_body /\ request_body["name"].v # <<>>
            THEN Underscored(request_body["name"].v) \o "_Sheet.pdf"
            ELSE "Character_Sheet.pdf"

\* C10 amended: the filename is the name with every space replaced by an
\* underscore, followed by _Sheet.pdf, when the request carries a non-empty
\* name; Character_Sheet.pdf when the name is the empty string; and
\* Unknown_Kindred_Sheet.pdf, from the model's default name, when the name
\* is absent from the request.
C10_Filename ==
    Answered =>
        response.filename =
            IF "name" \notin DOMAIN request_body THEN "Unknown_Kindred_Sheet.pdf"
            ELSE IF request_body["name"].v = <<>> THEN "Character_Sheet.pdf"
            ELSE Underscored(request_body["name"].v) \o "_Sheet.pdf"

\* C10 witness: a request without a name was answered.
C10_Witness ==
    /\ Answered
    /\ "name" \notin DOMAIN request_body
    /\ response.filename = "Unknown_Kindred_Sheet.pdf"

====
